---- MODULE Spec2Model ----
(***************************************************************************)
(* Model of PortDataSimulator (src/grafana/streaming.py): the clock loop   *)
(* simulate_real_time_data and the steps it calls, acting on the tables    *)
(* vessels, vessel_queue, berths and operations of the PostgreSQL store.   *)
(*                                                                         *)
(* Every step is one transaction: the variables vessels, vessel_queue,     *)
(* berths and operations hold the COMMITTED rows.  A step that raises      *)
(* inside its try block is rolled back, so it leaves the committed rows    *)
(* alone but keeps the assignments it made to the simulator's attributes.  *)
(*                                                                         *)
(* Time is an integer clock that the allocation and the finalization read  *)
(* alike.  The random draws of the program (service seconds 45..120,       *)
(* arrival 5..120 minutes ago, maintenance 5..10 minutes) are drawn from   *)
(* the scaled ranges 1..Max... below, the arrival at the two ends of its   *)
(* range; the columns updated_at, vessel_name, operation_type and the      *)
(* customs_clearance table, which no step reads back, are not represented. *)
(* A new vessel_queue row takes the status 'waiting' that the allocator    *)
(* selects on.                                                             *)
(***************************************************************************)
EXTENDS Integers, Sequences, FiniteSets, TLC

\* ---------------------------------------------------------------- bounds
BerthsCount == 2
MaxVessels == 2
MaxNow == 2
MaxServiceSeconds == 2
MaxArrivalAgo == 3
MaxMaintenanceMinutes == 2
MaxSleep == 1
MaxFailures == 1

\* SQL NULL / Python None in a timestamp or duration column
NULL == -1

VARIABLES
    now,                  \* the wall clock read by datetime.now()
    pc,                   \* next statement of simulate_real_time_data
    db_connection,        \* self.db_connection is not None
    duration_seconds,     \* self.duration_seconds
    total_ships_handled,  \* self.total_ships_handled
    failures,             \* number of store errors raised so far
    vessels,              \* table vessels, row i has vessel_id = i
    vessel_queue,         \* table vessel_queue
    berths,               \* table berths, berth_id -> row
    operations,           \* table operations, row i has operation_id = i
    tick_log,             \* steps the current loop iteration has called so far
    freed,                \* berths the current tick has made available
    inserted_at,          \* clock at which each vessel row was committed
    ship_data             \* descriptor returned by a direct call of generate_ship_data

vars == << now, pc, db_connection, duration_seconds, total_ships_handled,
           failures, vessels, vessel_queue, berths, operations,
           tick_log, freed, inserted_at, ship_data >>

store == << vessels, vessel_queue, berths, operations >>

attrs == << duration_seconds, total_ships_handled >>

\* what the loop has done in the current tick; the store and the attributes
\* do not depend on it
hist == << tick_log, freed, inserted_at >>

\* ------------------------------------------------ simulate_real_time_data
\* the loop body with the spawn moved to its end and the release first
NextStepAsDesigned(p) ==
    CASE p = "init_release" -> "release"
      [] p = "release"      -> "finalize"
      [] p = "finalize"     -> "allocate"
      [] p = "allocate"     -> "maintenance"
      [] p = "maintenance"  -> "spawn"
      [] p = "spawn"        -> "sleep"
      [] p = "sleep"        -> "release"

\* the loop body with the allocator called before the two freeing steps
NextStepAllocateFirst(p) ==
    CASE p = "init_release" -> "spawn"
      [] p = "spawn"        -> "allocate"
      [] p = "allocate"     -> "finalize"
      [] p = "finalize"     -> "release"
      [] p = "release"      -> "maintenance"
      [] p = "maintenance"  -> "sleep"
      [] p = "sleep"        -> "spawn"

\* the loop body with the maintenance event drawn before the allocator runs
NextStepMaintenanceFirst(p) ==
    CASE p = "init_release" -> "spawn"
      [] p = "spawn"        -> "finalize"
      [] p = "finalize"     -> "release"
      [] p = "release"      -> "maintenance"
      [] p = "maintenance"  -> "allocate"
      [] p = "allocate"     -> "sleep"
      [] p = "sleep"        -> "spawn"

\* the statement that follows p: release_maintenance_berths once before the
\* loop, then spawn, update_ongoing_operations, release_maintenance_berths,
\* allocate_ships_to_berths, simulate_maintenance_event, sleep
NextStep(p) ==
    CASE p = "init_release" -> "spawn"
      [] p = "spawn"        -> "finalize"
      [] p = "finalize"     -> "release"
      [] p = "release"      -> "allocate"
      [] p = "allocate"     -> "maintenance"
      [] p = "maintenance"  -> "sleep"
      [] p = "sleep"        -> "spawn"

\* the called step returned; error: its except branch ran
Logged(step, error) == Append(tick_log, [step |-> step, error |-> error])

\* the berths that a step turns available
FreedBy(bs, bs2) ==
    {b \in DOMAIN bs : bs[b].status # "available" /\ bs2[b].status = "available"}

\* connection.rollback() of an except branch: the rows written since the
\* last commit are dropped
RollbackOmitted(committed, working) == working

Rollback(committed, working) == committed

BerthIds == 1..BerthsCount

\* ------------------------------------------------------ generate_ship_data
ship_types ==
    << [type |-> "Cargueiro",       priority |-> 1, dmin |-> 30, dmax |-> 60],
       [type |-> "Porta-Container", priority |-> 2, dmin |-> 40, dmax |-> 80],
       [type |-> "Tanker",          priority |-> 3, dmin |-> 50, dmax |-> 90],
       [type |-> "Bulk Carrier",    priority |-> 1, dmin |-> 3,  dmax |-> 70],
       [type |-> "RoRo",            priority |-> 2, dmin |-> 20, dmax |-> 40],
       [type |-> "Frigorifico",     priority |-> 3, dmin |-> 45, dmax |-> 55] >>

\* the descriptor with the arrival drawn after the clock instead of before
generate_ship_data_arrival_ahead(t, service_seconds, ago, clock) ==
    [ type             |-> ship_types[t].type,
      priority         |-> ship_types[t].priority,
      service_duration |-> service_seconds,
      arrival_time     |-> clock + ago ]

\* t, service_seconds and ago are the three random draws of the generator
generate_ship_data(t, service_seconds, ago, clock) ==
    [ type             |-> ship_types[t].type,
      priority         |-> ship_types[t].priority,
      service_duration |-> service_seconds,
      arrival_time     |-> clock - ago ]

\* no descriptor has been generated
NoShip == [type |-> "none", priority |-> 0, service_duration |-> 0, arrival_time |-> 0]

ServiceSecondsDraws == 1..MaxServiceSeconds
\* the arrival draw is sampled at the two ends of its range
ArrivalAgoDraws == {1, MaxArrivalAgo}
MaintenanceDraws == 1..MaxMaintenanceMinutes

\* ------------------------------------------------------------------- Init
InitBerths ==
    [b \in BerthIds |->
        [status |-> "available", start_maintenance |-> NULL, end_maintenance |-> NULL]]

Init ==
    /\ now = 0
    /\ pc = "init_release"
    /\ db_connection \in BOOLEAN
    /\ duration_seconds = 0
    /\ total_ships_handled = 0
    /\ failures = 0
    /\ vessels = << >>
    /\ vessel_queue = << >>
    /\ berths = InitBerths
    /\ operations = << >>
    /\ tick_log = << >>
    /\ freed = {}
    /\ inserted_at = << >>
    /\ ship_data = NoShip

\* a store call raises: the except branch logs, rolls back and returns
CanFail == db_connection /\ failures < MaxFailures

\* -------------------------------------------------- insert_vessel_to_db
InsertVessel(vs, ship, dur) ==
    Append(vs, [priority |-> ship.priority, estimated_duration |-> dur])

InsertQueueEntry(q, vessel_id, ship) ==
    Append(q, [ vessel_id          |-> vessel_id,
                arrival_time       |-> ship.arrival_time,
                status             |-> "waiting",
                start_service_time |-> NULL,
                end_service_time   |-> NULL ])

insert_vessel_to_db(ship) ==
    IF ~db_connection
    THEN UNCHANGED << store, attrs, failures, inserted_at >>
    ELSE /\ duration_seconds' = ship.service_duration
         /\ vessels' = InsertVessel(vessels, ship, duration_seconds')
         /\ vessel_queue' = InsertQueueEntry(vessel_queue, Len(vessels) + 1, ship)
         /\ inserted_at' = Append(inserted_at, now)
         /\ UNCHANGED << berths, operations, total_ships_handled, failures >>

\* the error is raised by cursor() (stage 0, before the assignment of line
\* 146), by the INSERT INTO vessels (1), by a later INSERT (2: the vessel
\* row is written, its queue row is not) or by the commit (3)
insert_vessel_to_db_fails(ship) ==
    /\ CanFail
    /\ failures' = failures + 1
    /\ \E stage \in 0..3 :
          LET dur == IF stage = 0 THEN duration_seconds ELSE ship.service_duration
              wv  == IF stage >= 2 THEN InsertVessel(vessels, ship, dur) ELSE vessels
              wq  == IF stage = 3
                     THEN InsertQueueEntry(vessel_queue, Len(vessels) + 1, ship)
                     ELSE vessel_queue
          IN /\ duration_seconds' = dur
             /\ vessels' = Rollback(vessels, wv)
             /\ vessel_queue' = Rollback(vessel_queue, wq)
    /\ UNCHANGED << berths, operations, total_ships_handled, inserted_at >>

\* _random == 0: a ship is generated and inserted
SpawnVessel ==
    /\ pc = "spawn"
    /\ Len(vessels) < MaxVessels
    /\ \E t \in DOMAIN ship_types, s \in ServiceSecondsDraws, a \in ArrivalAgoDraws :
          insert_vessel_to_db(generate_ship_data(t, s, a, now))
    /\ pc' = NextStep(pc)
    /\ tick_log' = Logged("spawn", FALSE)
    /\ UNCHANGED << now, db_connection, freed, ship_data >>

SpawnVesselFails ==
    /\ pc = "spawn"
    /\ \E t \in DOMAIN ship_types, s \in ServiceSecondsDraws, a \in ArrivalAgoDraws :
          insert_vessel_to_db_fails(generate_ship_data(t, s, a, now))
    /\ pc' = NextStep(pc)
    /\ tick_log' = Logged("spawn", TRUE)
    /\ UNCHANGED << now, db_connection, freed, ship_data >>

\* _random == 1
SkipSpawn ==
    /\ pc = "spawn"
    /\ pc' = NextStep(pc)
    /\ tick_log' = Logged("spawn", FALSE)
    /\ UNCHANGED << now, db_connection, store, attrs, failures, freed, inserted_at, ship_data >>

\* SQL comparison a <= b: unknown, hence not selected, when a side is NULL
SqlLeq(a, b) == a # NULL /\ b # NULL /\ a <= b

\* ---------------------------------------------- update_ongoing_operations
\* the SELECT with o.end_time < current_time
CompletedOperationsStrict(ops, current_time) ==
    {i \in DOMAIN ops : ops[i].status = "in_progress" /\ ops[i].end_time < current_time}

\* SELECT ... WHERE o.status = 'in_progress' AND o.end_time <= current_time
CompletedOperations(ops, current_time) ==
    {i \in DOMAIN ops : ops[i].status = "in_progress" /\ SqlLeq(ops[i].end_time, current_time)}

\* FinalizeOperations that stores the planned duration as the actual one
FinalizeOperationsPlanned(ops, due, current_time) ==
    [i \in DOMAIN ops |->
        IF i \in due
        THEN [ops[i] EXCEPT !.status = "completed",
                            !.actual_duration = ops[i].planned_duration]
        ELSE ops[i]]

\* UPDATE operations SET status = 'completed', actual_duration = ...
FinalizeOperations(ops, due, current_time) ==
    [i \in DOMAIN ops |->
        IF i \in due
        THEN [ops[i] EXCEPT !.status = "completed",
                            !.actual_duration = current_time - ops[i].start_time]
        ELSE ops[i]]

\* FreeBerths without its UPDATE: the berth of a finalized operation stays occupied
FreeBerthsOmitted(bs, ops, due) == bs

\* UPDATE berths SET status = 'available' WHERE berth_id = ...
FreeBerths(bs, ops, due) ==
    [b \in DOMAIN bs |->
        IF \E i \in due : ops[i].berth_id = b
        THEN [bs[b] EXCEPT !.status = "available"]
        ELSE bs[b]]

\* CompleteQueueEntries that records the end time but leaves the status
CompleteQueueEntriesKeepsStatus(q, ops, due, current_time) ==
    [k \in DOMAIN q |->
        IF \E i \in due : ops[i].vessel_id = q[k].vessel_id
        THEN [q[k] EXCEPT !.end_service_time = current_time]
        ELSE q[k]]

\* UPDATE vessel_queue SET status = 'completed', end_service_time = ...
CompleteQueueEntries(q, ops, due, current_time) ==
    [k \in DOMAIN q |->
        IF \E i \in due : ops[i].vessel_id = q[k].vessel_id
        THEN [q[k] EXCEPT !.status = "completed", !.end_service_time = current_time]
        ELSE q[k]]

\* the value of an expression that raises ZeroDivisionError
ZeroDivisionError == -2

\* planned_duration / actual_duration, times 100, in hundredths of a percent
Ratio(planned_duration, actual_duration) ==
    IF actual_duration = 0
    THEN ZeroDivisionError
    ELSE (planned_duration * 10000) \div actual_duration

\* the expression of line 504 without its condition
EfficiencyUnguarded(planned_duration, actual_duration) ==
    Ratio(planned_duration, actual_duration)

\* round((planned_duration / actual_duration) * 100, 2) if actual_duration > 0 else 0
Efficiency(planned_duration, actual_duration) ==
    IF actual_duration > 0 THEN Ratio(planned_duration, actual_duration) ELSE 0

\* the operations of the pass whose efficiency expression raises
Unmeasurable(ops, due, current_time) ==
    {i \in due : Efficiency(ops[i].planned_duration, current_time - ops[i].start_time)
                     = ZeroDivisionError}

\* an exception of the efficiency expression is caught by the except branch
\* like a store error: the iterations before it (done) and its own have
\* incremented the counter, every UPDATE is rolled back
update_ongoing_operations ==
    /\ pc = "finalize"
    /\ IF ~db_connection
       THEN /\ UNCHANGED << store, attrs >>
            /\ tick_log' = Logged("finalize", FALSE)
       ELSE LET due == CompletedOperations(operations, now)
                bad == Unmeasurable(operations, due, now)
            IN IF bad = {}
               THEN /\ operations' = FinalizeOperations(operations, due, now)
                    /\ berths' = FreeBerths(berths, operations, due)
                    /\ vessel_queue' = CompleteQueueEntries(vessel_queue, operations, due, now)
                    /\ total_ships_handled' = total_ships_handled + Cardinality(due)
                    /\ tick_log' = Logged("finalize", FALSE)
                    /\ UNCHANGED << vessels, duration_seconds >>
               ELSE \E cur \in bad, done \in SUBSET (due \ bad) :
                    LET all == done \cup {cur} IN
                    /\ operations' = Rollback(operations,
                                              FinalizeOperations(operations, all, now))
                    /\ berths' = Rollback(berths, FreeBerths(berths, operations, all))
                    /\ vessel_queue' = Rollback(vessel_queue,
                                                CompleteQueueEntries(vessel_queue, operations, all, now))
                    /\ total_ships_handled' = total_ships_handled + Cardinality(all)
                    /\ tick_log' = Logged("finalize", TRUE)
                    /\ UNCHANGED << vessels, duration_seconds >>
    /\ pc' = NextStep(pc)
    /\ freed' = freed \cup FreedBy(berths, berths')
    /\ UNCHANGED << now, db_connection, failures, inserted_at, ship_data >>

\* an execute or the commit raises after the iterations for the operations
\* in done: their increments of the counter stay; cur is the operation of
\* the iteration that raises, after its first UPDATE (stage 1) or its
\* second (stage 2); all the updates are rolled back
update_ongoing_operations_fails ==
    /\ pc = "finalize"
    /\ CanFail
    /\ failures' = failures + 1
    /\ LET due == CompletedOperations(operations, now) IN
       \E done \in SUBSET due, stage \in 1..2 :
       \E cur \in {c \in SUBSET (due \ done) : Cardinality(c) <= 1} :
          LET wo == FinalizeOperations(operations, done \cup cur, now)
              wb == FreeBerths(berths, operations,
                               done \cup (IF stage = 2 THEN cur ELSE {}))
              wq == CompleteQueueEntries(vessel_queue, operations, done, now)
          IN /\ operations' = Rollback(operations, wo)
             /\ berths' = Rollback(berths, wb)
             /\ vessel_queue' = Rollback(vessel_queue, wq)
             /\ total_ships_handled' = total_ships_handled + Cardinality(done)
    /\ pc' = NextStep(pc)
    /\ tick_log' = Logged("finalize", TRUE)
    /\ freed' = freed \cup FreedBy(berths, berths')
    /\ UNCHANGED << now, db_connection, vessels, duration_seconds, inserted_at, ship_data >>

\* the UPDATE without the two window columns in its SET list
ReleaseBerthsKeepsWindow(bs, t) ==
    [b \in DOMAIN bs |->
        IF bs[b].status = "maintenance" /\ SqlLeq(bs[b].end_maintenance, t)
        THEN [bs[b] EXCEPT !.status = "available"]
        ELSE bs[b]]

\* ---------------------------------------------- release_maintenance_berths
\* UPDATE berths SET status = 'available', start_maintenance = NULL,
\* end_maintenance = NULL WHERE status = 'maintenance' AND end_maintenance <= now
ReleaseBerths(bs, t) ==
    [b \in DOMAIN bs |->
        IF bs[b].status = "maintenance" /\ SqlLeq(bs[b].end_maintenance, t)
        THEN [status |-> "available", start_maintenance |-> NULL, end_maintenance |-> NULL]
        ELSE bs[b]]

\* the call before the loop is not part of a tick and is not logged
release_maintenance_berths ==
    /\ pc \in {"init_release", "release"}
    /\ berths' = IF db_connection THEN ReleaseBerths(berths, now) ELSE berths
    /\ pc' = NextStep(pc)
    /\ tick_log' = IF pc = "init_release" THEN tick_log ELSE Logged("release", FALSE)
    /\ freed' = freed \cup FreedBy(berths, berths')
    /\ UNCHANGED << now, db_connection, vessels, vessel_queue, operations, attrs,
                    failures, inserted_at, ship_data >>

\* the UPDATE raises, or the commit after it
release_maintenance_berths_fails ==
    /\ pc \in {"init_release", "release"}
    /\ CanFail
    /\ failures' = failures + 1
    /\ \E wb \in {berths, ReleaseBerths(berths, now)} : berths' = Rollback(berths, wb)
    /\ pc' = NextStep(pc)
    /\ tick_log' = IF pc = "init_release" THEN tick_log ELSE Logged("release", TRUE)
    /\ freed' = freed \cup FreedBy(berths, berths')
    /\ UNCHANGED << now, db_connection, vessels, vessel_queue, operations, attrs,
                    inserted_at, ship_data >>

\* ---------------------------------------------- allocate_ships_to_berths
\* SELECT COUNT(*) FROM vessel_queue WHERE status = 'waiting'
WaitingEntries(q) == {k \in DOMAIN q : q[k].status = "waiting"}

\* AvailableBerths without its WHERE clause
AvailableBerthsUnfiltered(bs) == DOMAIN bs

\* SELECT berth_id FROM berths WHERE status = 'available'
AvailableBerths(bs) == {b \in DOMAIN bs : bs[b].status = "available"}

\* the orders in which a query without ORDER BY may return the rows of S
RowOrders(S) ==
    {f \in [1..Cardinality(S) -> S] : \A i, j \in DOMAIN f : i # j => f[i] # f[j]}

\* ComesBefore with ORDER BY v.priority ASC
ComesBeforePriorityAsc(vs, q, tie, k, j) ==
    LET pk == vs[q[k].vessel_id].priority
        pj == vs[q[j].vessel_id].priority
    IN \/ pk < pj
       \/ pk = pj /\ q[k].arrival_time < q[j].arrival_time
       \/ pk = pj /\ q[k].arrival_time = q[j].arrival_time /\ tie[k] < tie[j]

\* ComesBefore with ORDER BY vq.arrival_time DESC
ComesBeforeArrivalDesc(vs, q, tie, k, j) ==
    LET pk == vs[q[k].vessel_id].priority
        pj == vs[q[j].vessel_id].priority
    IN \/ pk > pj
       \/ pk = pj /\ q[k].arrival_time > q[j].arrival_time
       \/ pk = pj /\ q[k].arrival_time = q[j].arrival_time /\ tie[k] < tie[j]

\* ORDER BY v.priority DESC, vq.arrival_time ASC; rows that are equal in both
\* keys come in an order the query does not fix, given by tie
ComesBefore(vs, q, tie, k, j) ==
    LET pk == vs[q[k].vessel_id].priority
        pj == vs[q[j].vessel_id].priority
    IN \/ pk > pj
       \/ pk = pj /\ q[k].arrival_time < q[j].arrival_time
       \/ pk = pj /\ q[k].arrival_time = q[j].arrival_time /\ tie[k] < tie[j]

\* ... WHERE vq.status = 'waiting' ORDER BY ... LIMIT 1 (0: no row)
NextShip(vs, q, tie) ==
    IF WaitingEntries(q) = {} THEN 0
    ELSE CHOOSE k \in WaitingEntries(q) :
            \A j \in WaitingEntries(q) \ {k} : ComesBefore(vs, q, tie, k, j)

\* StartService that records the start time but leaves the entry waiting
StartServiceKeepsWaiting(q, vessel_id, start_time) ==
    [k \in DOMAIN q |->
        IF q[k].vessel_id = vessel_id
        THEN [q[k] EXCEPT !.start_service_time = start_time]
        ELSE q[k]]

\* UPDATE vessel_queue SET start_service_time = ..., status = 'in_service'
StartService(q, vessel_id, start_time) ==
    [k \in DOMAIN q |->
        IF q[k].vessel_id = vessel_id
        THEN [q[k] EXCEPT !.status = "in_service", !.start_service_time = start_time]
        ELSE q[k]]

\* OccupyBerth without its UPDATE: the bound berth stays available
OccupyBerthOmitted(bs, berth_id) == bs

\* UPDATE berths SET status = 'occupied' WHERE berth_id = ...
OccupyBerth(bs, berth_id) == [bs EXCEPT ![berth_id].status = "occupied"]

\* INSERT INTO operations (...); estimated is the vessel's estimated_duration
\* column, which the loop fetches, and dur is self.duration_seconds
NewOperation(vessel_id, berth_id, start_time, estimated, dur) ==
    [ vessel_id        |-> vessel_id,
      berth_id         |-> berth_id,
      start_time       |-> start_time,
      end_time         |-> start_time + dur,
      status           |-> "in_progress",
      planned_duration |-> dur,
      actual_duration  |-> NULL ]

\* the loop "for berth_id, berth_number in available_berths", on the rows as
\* the open transaction sees them
\* the loop leaving after its first binding
AllocateLoopFirstBerthOnly(order, tie, vs, q, bs, ops, start_time, dur) ==
    LET k == NextShip(vs, q, tie) IN
    IF order = << >> \/ k = 0
    THEN [vessel_queue |-> q, berths |-> bs, operations |-> ops]
    ELSE LET v == q[k].vessel_id IN
         [ vessel_queue |-> StartService(q, v, start_time),
           berths       |-> OccupyBerth(bs, Head(order)),
           operations   |-> Append(ops, NewOperation(v, Head(order), start_time,
                                                     vs[v].estimated_duration, dur)) ]

RECURSIVE AllocateLoop(_, _, _, _, _, _, _, _)
AllocateLoop(order, tie, vs, q, bs, ops, start_time, dur) ==
    IF order = << >>
    THEN [vessel_queue |-> q, berths |-> bs, operations |-> ops]
    ELSE LET k == NextShip(vs, q, tie) IN
         IF k = 0
         THEN AllocateLoop(Tail(order), tie, vs, q, bs, ops, start_time, dur)
         ELSE LET v == q[k].vessel_id IN
              AllocateLoop(Tail(order), tie, vs,
                           StartService(q, v, start_time),
                           OccupyBerth(bs, Head(order)),
                           Append(ops, NewOperation(v, Head(order), start_time,
                                                     vs[v].estimated_duration, dur)),
                           start_time, dur)

TieBreaks(q) == RowOrders(DOMAIN q)

allocate_ships_to_berths ==
    /\ pc = "allocate"
    /\ IF ~db_connection \/ WaitingEntries(vessel_queue) = {}
          \/ AvailableBerths(berths) = {}
       THEN UNCHANGED << vessel_queue, berths, operations >>
       ELSE \E order \in RowOrders(AvailableBerths(berths)), tie \in TieBreaks(vessel_queue) :
               LET r == AllocateLoop(order, tie, vessels, vessel_queue, berths,
                                     operations, now, duration_seconds) IN
               /\ vessel_queue' = r.vessel_queue
               /\ berths' = r.berths
               /\ operations' = r.operations
    /\ pc' = NextStep(pc)
    /\ tick_log' = Logged("allocate", FALSE)
    /\ UNCHANGED << now, db_connection, vessels, attrs, failures, freed, inserted_at, ship_data >>

\* the rows the transaction has written when a statement raises: n
\* iterations are done; in the next one the UPDATE of vessel_queue is done
\* (stage 1) and the UPDATE of berths too (stage 2), the INSERT is not
AllocatePartial(order, tie, vs, q, bs, ops, start_time, dur, n, stage) ==
    LET r == AllocateLoop(SubSeq(order, 1, n), tie, vs, q, bs, ops, start_time, dur)
        k == NextShip(vs, r.vessel_queue, tie)
    IN IF n >= Len(order) \/ k = 0 \/ stage = 0
       THEN r
       ELSE [ vessel_queue |-> StartService(r.vessel_queue, q[k].vessel_id, start_time),
              berths       |-> IF stage = 2 THEN OccupyBerth(r.berths, order[n + 1])
                                            ELSE r.berths,
              operations   |-> r.operations ]

\* a statement or the commit raises; the except branch rolls back
allocate_ships_to_berths_fails ==
    /\ pc = "allocate"
    /\ CanFail
    /\ failures' = failures + 1
    /\ \E order \in RowOrders(AvailableBerths(berths)), tie \in TieBreaks(vessel_queue) :
       \E n \in 0..Len(order), stage \in 0..2 :
          LET w == AllocatePartial(order, tie, vessels, vessel_queue, berths,
                                   operations, now, duration_seconds, n, stage) IN
          /\ vessel_queue' = Rollback(vessel_queue, w.vessel_queue)
          /\ berths' = Rollback(berths, w.berths)
          /\ operations' = Rollback(operations, w.operations)
    /\ pc' = NextStep(pc)
    /\ tick_log' = Logged("allocate", TRUE)
    /\ UNCHANGED << now, db_connection, vessels, attrs, freed, inserted_at, ship_data >>

\* ---------------------------------------------- simulate_maintenance_event
\* UPDATE berths SET status = 'maintenance', ... WHERE berth_id = ... AND
\* status = 'available'
StartMaintenance(bs, berth_id, start_maintenance, end_maintenance) ==
    [b \in DOMAIN bs |->
        IF b = berth_id /\ bs[b].status = "available"
        THEN [status |-> "maintenance", start_maintenance |-> start_maintenance,
              end_maintenance |-> end_maintenance]
        ELSE bs[b]]

\* SELECT berth_id FROM berths WHERE status = 'available'
\* ORDER BY RANDOM() LIMIT 1: the rows one of which is drawn
MaintenanceCandidates(bs) == {b \in DOMAIN bs : bs[b].status = "available"}

\* simulate_maintenance_event with "status = 'available'" in neither statement
simulate_maintenance_event_any_status ==
    /\ pc = "maintenance"
    /\ IF ~db_connection
       THEN UNCHANGED berths
       ELSE \E b \in DOMAIN berths, m \in MaintenanceDraws :
               berths' = [berths EXCEPT ![b] =
                            [status |-> "maintenance", start_maintenance |-> now,
                             end_maintenance |-> now + m]]
    /\ pc' = NextStep(pc)
    /\ tick_log' = Logged("maintenance", FALSE)
    /\ UNCHANGED << now, db_connection, vessels, vessel_queue, operations, attrs,
                    failures, freed, inserted_at, ship_data >>

\* random.random() < 0.3
simulate_maintenance_event ==
    /\ pc = "maintenance"
    /\ IF ~db_connection \/ MaintenanceCandidates(berths) = {}
       THEN UNCHANGED berths
       ELSE \E b \in MaintenanceCandidates(berths), m \in MaintenanceDraws :
               berths' = StartMaintenance(berths, b, now, now + m)
    /\ pc' = NextStep(pc)
    /\ tick_log' = Logged("maintenance", FALSE)
    /\ UNCHANGED << now, db_connection, vessels, vessel_queue, operations, attrs,
                    failures, freed, inserted_at, ship_data >>

\* the SELECT or the UPDATE raises, or the commit after the UPDATE
simulate_maintenance_event_fails ==
    /\ pc = "maintenance"
    /\ CanFail
    /\ failures' = failures + 1
    /\ \E wb \in {berths} \cup
                 {StartMaintenance(berths, b, now, now + m) :
                     b \in MaintenanceCandidates(berths), m \in MaintenanceDraws} :
          berths' = Rollback(berths, wb)
    /\ pc' = NextStep(pc)
    /\ tick_log' = Logged("maintenance", TRUE)
    /\ UNCHANGED << now, db_connection, vessels, vessel_queue, operations, attrs,
                    freed, inserted_at, ship_data >>

\* random.random() >= 0.3
SkipMaintenance ==
    /\ pc = "maintenance"
    /\ pc' = NextStep(pc)
    /\ tick_log' = Logged("maintenance", FALSE)
    /\ UNCHANGED << now, db_connection, store, attrs, failures, freed, inserted_at, ship_data >>

\* time.sleep(self.tick_seconds): the only place where the clock advances;
\* the next iteration of the loop begins
Sleep ==
    /\ pc = "sleep"
    /\ \E d \in 1..MaxSleep :
          /\ now + d <= MaxNow
          /\ now' = now + d
    /\ pc' = NextStep(pc)
    /\ tick_log' = << >>
    /\ freed' = {}
    /\ UNCHANGED << db_connection, store, attrs, failures, inserted_at, ship_data >>

\* the connection to the server is lost while a step runs: the statement
\* raises, the except branch of the step runs and its rollback() raises in
\* turn on the closed connection; no handler of simulate_real_time_data or
\* run_simulation catches that error, the finally clause closes the
\* connection and the program ends. The server drops the open transaction.
connection_lost ==
    /\ pc \in {"init_release", "spawn", "finalize", "release", "allocate", "maintenance"}
    /\ CanFail
    /\ failures' = failures + 1
    /\ pc' = "crashed"
    /\ tick_log' = IF pc = "init_release" THEN tick_log ELSE Logged(pc, TRUE)
    /\ duration_seconds' \in
          IF pc = "spawn" /\ Len(vessels) < MaxVessels
          THEN {duration_seconds} \cup ServiceSecondsDraws
          ELSE {duration_seconds}
    /\ \E k \in 0..(IF pc = "finalize"
                     THEN Cardinality(CompletedOperations(operations, now))
                     ELSE 0) :
          total_ships_handled' = total_ships_handled + k
    /\ UNCHANGED << now, db_connection, store, freed, inserted_at, ship_data >>

Next ==
    \/ SpawnVessel
    \/ SpawnVesselFails
    \/ SkipSpawn
    \/ update_ongoing_operations
    \/ update_ongoing_operations_fails
    \/ release_maintenance_berths
    \/ release_maintenance_berths_fails
    \/ allocate_ships_to_berths
    \/ allocate_ships_to_berths_fails
    \/ simulate_maintenance_event
    \/ simulate_maintenance_event_fails
    \/ SkipMaintenance
    \/ Sleep
    \/ connection_lost

Spec == Init /\ [][Next]_vars

TypeOK ==
    /\ now \in 0..MaxNow
    /\ pc \in {"init_release", "spawn", "finalize", "release", "allocate", "maintenance",
               "sleep", "stopped", "crashed"}
    /\ Len(tick_log) <= 5
    /\ freed \subseteq DOMAIN berths
    /\ Len(inserted_at) = Len(vessels)
    /\ Len(vessels) <= MaxVessels
    /\ Len(vessel_queue) = Len(vessels)
    /\ Len(operations) <= Len(vessels)

\* ------------------------------------------------------------ properties
InProgressOn(b) ==
    {i \in DOMAIN operations :
        operations[i].status = "in_progress" /\ operations[i].berth_id = b}

InProgressFor(v) ==
    {i \in DOMAIN operations :
        operations[i].status = "in_progress" /\ operations[i].vessel_id = v}

\* C1: in every committed state a berth is occupied iff exactly one
\* in-progress operation references it; a berth in maintenance is referenced
\* by no in-progress operation and an occupied berth carries no maintenance
\* window, so no berth is occupied and in maintenance at once.
BerthOccupiedIffOneOperation ==
    \A b \in DOMAIN berths :
        /\ berths[b].status = "occupied" <=> Cardinality(InProgressOn(b)) = 1
        /\ berths[b].status = "maintenance" => InProgressOn(b) = {}
        /\ berths[b].status = "occupied" =>
              berths[b].start_maintenance = NULL /\ berths[b].end_maintenance = NULL

\* a finalization has released one berth while another operation goes on
WitnessBerthOccupied ==
    /\ \E b \in DOMAIN berths : berths[b].status = "occupied"
    /\ \E i \in DOMAIN operations :
          operations[i].status = "completed"
          /\ berths[operations[i].berth_id].status # "occupied"

\* C2: in every committed state a queue entry is in_service iff an
\* in-progress operation exists for its vessel.
InServiceIffOperation ==
    \A k \in DOMAIN vessel_queue :
        vessel_queue[k].status = "in_service" <=> InProgressFor(vessel_queue[k].vessel_id) # {}

\* one entry is in service and another one has been completed
WitnessInService ==
    /\ \E k \in DOMAIN vessel_queue : vessel_queue[k].status = "in_service"
    /\ \E k \in DOMAIN vessel_queue : vessel_queue[k].status = "completed"

\* C3: at every moment each berth and each vessel is referenced by at most
\* one in-progress operation.
AtMostOneInProgress ==
    /\ \A b \in DOMAIN berths : Cardinality(InProgressOn(b)) <= 1
    /\ \A v \in DOMAIN vessels : Cardinality(InProgressFor(v)) <= 1

\* two operations are in progress at once
WitnessTwoInProgress ==
    \E i, j \in DOMAIN operations :
        /\ i # j
        /\ operations[i].status = "in_progress"
        /\ operations[j].status = "in_progress"

\* a step of allocate_ships_to_berths that reached its commit
AllocationPass ==
    /\ pc = "allocate" /\ pc' = "maintenance"
    /\ db_connection /\ failures' = failures

\* the operations inserted by the step, in the order of their insertion
NewOperations == (Len(operations) + 1)..Len(operations')

\* the vessels bound by the step before its operation i
BoundBefore(i) == {operations'[j].vessel_id : j \in {n \in NewOperations : n < i}}

Min(a, b) == IF a <= b THEN a ELSE b

\* C4: a committed allocation pass that starts with M available berths and N
\* waiting entries moves exactly min(M, N) entries to in_service, each bound
\* by its own new operation to a different berth that was available; no
\* entry gets two operations, no berth two entries; with N = 0 the store is
\* left as it was.
NoDoubleAllocation ==
    [][AllocationPass =>
        LET M == Cardinality(AvailableBerths(berths))
            N == Cardinality(WaitingEntries(vessel_queue))
            moved == {k \in DOMAIN vessel_queue :
                        /\ vessel_queue[k].status = "waiting"
                        /\ vessel_queue'[k].status = "in_service"}
        IN /\ Cardinality(moved) = Min(M, N)
           /\ Cardinality(NewOperations) = Min(M, N)
           /\ \A k \in DOMAIN vessel_queue :
                 k \notin moved => vessel_queue'[k] = vessel_queue[k]
           /\ \A k \in moved :
                 Cardinality({i \in NewOperations :
                     operations'[i].vessel_id = vessel_queue[k].vessel_id}) = 1
           /\ \A i \in NewOperations :
                 /\ operations'[i].status = "in_progress"
                 /\ operations'[i].berth_id \in AvailableBerths(berths)
                 /\ berths'[operations'[i].berth_id].status = "occupied"
                 /\ \E k \in moved : vessel_queue[k].vessel_id = operations'[i].vessel_id
           /\ \A i, j \in NewOperations :
                 i # j => /\ operations'[i].berth_id # operations'[j].berth_id
                          /\ operations'[i].vessel_id # operations'[j].vessel_id
           /\ \A i \in DOMAIN operations : operations'[i] = operations[i]
           /\ N = 0 => UNCHANGED store
    ]_vars

\* a pass has just bound two waiting entries to the two available berths
WitnessTwoAllocated ==
    /\ pc = "maintenance"
    /\ \E i, j \in DOMAIN operations :
          /\ i # j
          /\ operations[i].start_time = now /\ operations[j].start_time = now
          /\ operations[i].status = "in_progress" /\ operations[j].status = "in_progress"
          /\ operations[i].berth_id # operations[j].berth_id

PriorityOf(v) == vessels[v].priority

ArrivalOf(v) ==
    LET k == CHOOSE n \in DOMAIN vessel_queue : vessel_queue[n].vessel_id = v
    IN vessel_queue[k].arrival_time

\* the entries that are waiting when operation i of the step is inserted,
\* other than the one it binds
WaitingAt(i) ==
    {k \in WaitingEntries(vessel_queue) :
        /\ vessel_queue[k].vessel_id \notin BoundBefore(i)
        /\ vessel_queue[k].vessel_id # operations'[i].vessel_id}

\* C5: whenever the allocator binds an entry, no entry that is waiting at
\* that moment has a strictly higher priority.
HigherPriorityFirst ==
    [][AllocationPass =>
        \A i \in NewOperations : \A k \in WaitingAt(i) :
            PriorityOf(vessel_queue[k].vessel_id) <= PriorityOf(operations'[i].vessel_id)
    ]_vars

\* a pass has just bound a vessel while one of lower priority, which arrived
\* earlier, is left waiting
WitnessHigherPriorityFirst ==
    /\ pc = "maintenance"
    /\ \E i \in DOMAIN operations : \E k \in WaitingEntries(vessel_queue) :
          /\ operations[i].start_time = now
          /\ PriorityOf(vessel_queue[k].vessel_id) < PriorityOf(operations[i].vessel_id)
          /\ vessel_queue[k].arrival_time < ArrivalOf(operations[i].vessel_id)

\* C6: whenever the allocator binds an entry, no entry that is waiting at
\* that moment has the same priority and a strictly earlier arrival time.
EarlierArrivalFirst ==
    [][AllocationPass =>
        \A i \in NewOperations : \A k \in WaitingAt(i) :
            PriorityOf(vessel_queue[k].vessel_id) = PriorityOf(operations'[i].vessel_id)
                => vessel_queue[k].arrival_time >= ArrivalOf(operations'[i].vessel_id)
    ]_vars

\* a pass has just bound a vessel while one of the same priority, which was
\* inserted earlier but arrived later, is left waiting
WitnessEarlierArrivalFirst ==
    /\ pc = "maintenance"
    /\ \E i \in DOMAIN operations : \E k \in WaitingEntries(vessel_queue) :
          /\ operations[i].start_time = now
          /\ PriorityOf(vessel_queue[k].vessel_id) = PriorityOf(operations[i].vessel_id)
          /\ vessel_queue[k].arrival_time > ArrivalOf(operations[i].vessel_id)
          /\ vessel_queue[k].vessel_id < operations[i].vessel_id

\* C7: every operation's planned_duration is the estimated_duration stored
\* for its vessel and its end_time is start_time plus that duration.
PlannedDurationIsVesselEstimate ==
    \A i \in DOMAIN operations :
        /\ operations[i].planned_duration = vessels[operations[i].vessel_id].estimated_duration
        /\ operations[i].end_time =
              operations[i].start_time + vessels[operations[i].vessel_id].estimated_duration

\* a step of update_ongoing_operations that reached its commit
FinalizationPass ==
    /\ pc = "finalize" /\ pc' = "release"
    /\ db_connection /\ failures' = failures

\* C8: a committed finalization step run at time now completes exactly the
\* in-progress operations with now >= start_time + planned_duration: each
\* gets actual_duration = now - start_time >= planned_duration, its berth
\* becomes available and its vessel's queue entry completed with
\* end_service_time = now; an operation with now < start_time +
\* planned_duration is left as it is.
CompletionCorrectness ==
    [][FinalizationPass =>
        \A i \in DOMAIN operations :
            IF /\ operations[i].status = "in_progress"
               /\ now >= operations[i].start_time + operations[i].planned_duration
            THEN /\ operations'[i].status = "completed"
                 /\ operations'[i].actual_duration = now - operations[i].start_time
                 /\ operations'[i].actual_duration >= operations[i].planned_duration
                 /\ berths'[operations[i].berth_id].status = "available"
                 /\ \A k \in DOMAIN vessel_queue :
                       vessel_queue[k].vessel_id = operations[i].vessel_id =>
                          /\ vessel_queue'[k].status = "completed"
                          /\ vessel_queue'[k].end_service_time = now
            ELSE operations'[i] = operations[i]
    ]_vars

\* a finalization step has just completed an operation later than planned
WitnessCompletedLate ==
    /\ pc = "release"
    /\ \E i \in DOMAIN operations : \E k \in DOMAIN vessel_queue :
          /\ operations[i].status = "completed"
          /\ operations[i].start_time + operations[i].actual_duration = now
          /\ operations[i].actual_duration > operations[i].planned_duration
          /\ berths[operations[i].berth_id].status = "available"
          /\ vessel_queue[k].vessel_id = operations[i].vessel_id
          /\ vessel_queue[k].end_service_time = now

\* C9: no step of the allocator changes a berth that is in maintenance or
\* occupied, or inserts an operation for it.
AllocatorOnlyAvailableBerths ==
    [][pc = "allocate" =>
        \A b \in DOMAIN berths :
            berths[b].status # "available" =>
               /\ berths'[b] = berths[b]
               /\ \A i \in NewOperations : operations'[i].berth_id # b
    ]_vars

\* a pass has just bound a vessel while another berth is in maintenance and
\* an entry is left waiting
WitnessMaintenanceBerthSkipped ==
    /\ pc = "maintenance"
    /\ \E i \in DOMAIN operations : operations[i].start_time = now
    /\ \E b \in DOMAIN berths : berths[b].status = "maintenance"
    /\ WaitingEntries(vessel_queue) # {}

\* C10: the maintenance step changes no berth that is occupied or in
\* maintenance, puts at most one available berth into maintenance and
\* leaves the operations and their berths as they are.
MaintenanceOnlyAvailableBerths ==
    [][pc = "maintenance" =>
        /\ \A b \in DOMAIN berths :
              /\ berths[b].status # "available" => berths'[b] = berths[b]
              /\ berths'[b] # berths[b] => berths'[b].status = "maintenance"
        /\ Cardinality({b \in DOMAIN berths : berths'[b] # berths[b]}) <= 1
        /\ operations' = operations
        /\ \A i \in DOMAIN operations :
              operations[i].status = "in_progress" =>
                 berths'[operations[i].berth_id].status = "occupied"
    ]_vars

\* the maintenance step has just taken a berth while another berth is
\* occupied by an operation in progress
WitnessMaintenanceStarted ==
    /\ pc = "sleep"
    /\ \E b \in DOMAIN berths :
          berths[b].status = "maintenance" /\ berths[b].start_maintenance = now
    /\ \E b \in DOMAIN berths :
          berths[b].status = "occupied" /\ InProgressOn(b) # {}

\* a step whose except branch runs
StoreFailure(step) == pc = step /\ failures' = failures + 1

\* no half of a binding or of a finalization is in the store
NoPartialTransition ==
    /\ \A b \in DOMAIN berths :
          berths[b].status = "occupied" =>
             \E i \in InProgressOn(b) :
                \A k \in DOMAIN vessel_queue :
                   vessel_queue[k].vessel_id = operations[i].vessel_id =>
                      vessel_queue[k].status = "in_service"
    /\ \A i \in DOMAIN operations :
          operations[i].status = "completed" =>
             /\ berths[operations[i].berth_id].status = "occupied" =>
                   InProgressOn(operations[i].berth_id) # {}
             /\ \A k \in DOMAIN vessel_queue :
                   vessel_queue[k].vessel_id = operations[i].vessel_id =>
                      vessel_queue[k].status = "completed"

\* C11: a store failure part-way through an allocation pass or a
\* finalization pass commits nothing of the pass: the four tables are as
\* before the step, so no berth is occupied while its vessel's entry is
\* waiting and no operation is completed while its berth is still occupied
\* by it or its entry still in service.
NoPartialCommit ==
    [][StoreFailure("allocate") \/ StoreFailure("finalize") =>
          /\ store' = store
          /\ NoPartialTransition'
    ]_vars

\* an allocation pass that had an entry to bind to a berth has failed, and
\* so has a finalization pass that had a due operation to complete
WitnessAllocationFailed ==
    /\ pc = "maintenance"
    /\ tick_log[Len(tick_log)] = [step |-> "allocate", error |-> TRUE]
    /\ WaitingEntries(vessel_queue) # {}
    /\ AvailableBerths(berths) # {}
    /\ \E i \in DOMAIN operations : operations[i].status = "in_progress"

\* the steps a tick has called so far, in the order of the calls
StepsOf(log) == [i \in DOMAIN log |-> log[i].step]

IsPrefix(s, t) == Len(s) <= Len(t) /\ \A i \in DOMAIN s : s[i] = t[i]

\* the calls of one iteration of the while loop, top to bottom
LoopOrder == << "spawn", "finalize", "release", "allocate", "maintenance" >>

\* C12 as stated: every tick runs release-maintenance,
\* finalize-completed-operations, allocate, maybe-start-maintenance,
\* maybe-spawn-vessel in this order, so spawn never runs before allocate and
\* finalize never before release-maintenance.
TickOrderAsStated ==
    IsPrefix(StepsOf(tick_log),
             << "release", "finalize", "allocate", "maintenance", "spawn" >>)

\* C12 amended: every tick runs maybe-spawn-vessel,
\* finalize-completed-operations, release-maintenance, allocate,
\* maybe-start-maintenance in this order and reaches its sleep with all five
\* done; both freeing steps run before the allocate step.
TickOrderOfLoop ==
    /\ IsPrefix(StepsOf(tick_log), LoopOrder)
    /\ pc = "sleep" => Len(tick_log) = Len(LoopOrder)
    /\ pc \in {"init_release", "spawn"} => tick_log = << >>

\* a later tick has run all its steps, a spawn and an allocation included
WitnessTickCompleted ==
    /\ pc = "sleep"
    /\ now > 0
    /\ StepsOf(tick_log) = LoopOrder
    /\ \E v \in DOMAIN inserted_at : inserted_at[v] = now
    /\ \E i \in DOMAIN operations : operations[i].start_time = now

\* the tick has called the step and the step has committed
StepDone(step) ==
    db_connection /\ \E i \in DOMAIN tick_log : tick_log[i] = [step |-> step, error |-> FALSE]

\* operation i of the allocation step binds the head of the waiting
\* entries: none of the others has a higher priority, or the same priority
\* and an earlier arrival
BindsHead(i) ==
    \A k \in WaitingAt(i) :
       LET v == vessel_queue[k].vessel_id
           w == operations'[i].vessel_id
       IN /\ PriorityOf(v) <= PriorityOf(w)
          /\ PriorityOf(v) = PriorityOf(w) => ArrivalOf(v) >= ArrivalOf(w)

\* C13: in every tick the finalization step and the maintenance-release
\* step have both run when the allocation step starts, so a berth freed in
\* the tick is available to a committed allocation pass of the same tick:
\* if an entry is waiting, the pass binds the then-head entry to the berth,
\* unless the pass leaves no entry waiting; at the end of the tick no berth
\* freed in it is left available while an entry waits.
FreedBerthReusedSameTick ==
    [][/\ pc = "allocate" =>
             /\ \E i \in DOMAIN tick_log : tick_log[i].step = "finalize"
             /\ \E i \in DOMAIN tick_log : tick_log[i].step = "release"
       /\ AllocationPass =>
             \A b \in freed :
                /\ berths[b].status = "available"
                /\ WaitingEntries(vessel_queue) # {} =>
                      \/ /\ berths'[b].status = "occupied"
                         /\ \E i \in NewOperations :
                               operations'[i].berth_id = b /\ BindsHead(i)
                      \/ WaitingEntries(vessel_queue') = {}
       /\ (pc' = "sleep" /\ StepDone("allocate")') =>
             \A b \in freed' :
                \/ berths'[b].status # "available"
                \/ WaitingEntries(vessel_queue') = {}
    ]_vars

\* a berth freed by the finalization step of this tick was bound in the
\* same tick to an entry that had arrived before the tick
WitnessFreedBerthReused ==
    /\ pc = "sleep"
    /\ StepDone("allocate")
    /\ \A v \in DOMAIN inserted_at : inserted_at[v] < now
    /\ \E b \in freed :
          /\ berths[b].status = "occupied"
          /\ \E i \in DOMAIN operations :
                /\ operations[i].berth_id = b
                /\ operations[i].status = "completed"
                /\ operations[i].end_time = now
          /\ \E i \in InProgressOn(b) : operations[i].start_time = now

\* the queue entry of vessel v
EntryOf(q, v) == CHOOSE k \in DOMAIN q : q[k].vessel_id = v

\* the allocation step starts with one waiting entry, of a vessel inserted
\* in this tick, and a berth available
SpawnedAlone(v) ==
    /\ v \in DOMAIN inserted_at /\ inserted_at[v] = now
    /\ WaitingEntries(vessel_queue) = {EntryOf(vessel_queue, v)}
    /\ AvailableBerths(berths) # {}

\* C14: a vessel inserted in a tick in which a berth is available and no
\* other entry is waiting is bound by the committed allocation pass of the
\* same tick (berth occupied, entry in_service, operation planned with the
\* vessel's own duration); the first committed finalization step with
\* now >= start + that duration, and none before it, completes the
\* operation, frees the berth and completes the entry.
EndToEndScenario ==
    [][/\ AllocationPass =>
             \A v \in DOMAIN vessels :
                SpawnedAlone(v) =>
                   /\ vessel_queue'[EntryOf(vessel_queue, v)].status = "in_service"
                   /\ Len(operations') = Len(operations) + 1
                   /\ LET o == operations'[Len(operations')] IN
                         /\ o.vessel_id = v
                         /\ o.status = "in_progress"
                         /\ o.start_time = now
                         /\ o.planned_duration = vessels[v].estimated_duration
                         /\ berths[o.berth_id].status = "available"
                         /\ berths'[o.berth_id].status = "occupied"
       /\ FinalizationPass =>
             \A i \in DOMAIN operations :
                LET o == operations[i]
                    v == o.vessel_id
                    k == EntryOf(vessel_queue, v)
                IN (o.status = "in_progress" /\ o.start_time = inserted_at[v]) =>
                      IF now >= o.start_time + vessels[v].estimated_duration
                      THEN /\ operations'[i].status = "completed"
                           /\ berths'[o.berth_id].status = "available"
                           /\ vessel_queue'[k].status = "completed"
                      ELSE /\ operations'[i] = o
                           /\ berths'[o.berth_id] = berths[o.berth_id]
                           /\ vessel_queue'[k] = vessel_queue[k]
    ]_vars

\* a vessel inserted at clock 0 with every berth available was bound at
\* clock 0 and its operation has been completed exactly when due
WitnessEndToEnd ==
    \E i \in DOMAIN operations :
       LET o == operations[i] IN
       /\ inserted_at[o.vessel_id] = 0
       /\ o.start_time = 0
       /\ o.status = "completed"
       /\ o.actual_duration = vessels[o.vessel_id].estimated_duration
       /\ vessel_queue[EntryOf(vessel_queue, o.vessel_id)].status = "completed"
       /\ berths[o.berth_id].status = "available"

\* a call of release_maintenance_berths that commits
ReleasePass ==
    /\ pc \in {"init_release", "release"}
    /\ db_connection /\ failures' = failures

\* C15: a committed maintenance-release step makes every berth that is in
\* maintenance with end_maintenance <= now available with both window
\* fields cleared, and leaves every other berth (maintenance that ends
\* later, occupied, available) and every other table as it was.
ReleaseStepExact ==
    [][ReleasePass =>
          /\ \A b \in DOMAIN berths :
                IF berths[b].status = "maintenance" /\ berths[b].end_maintenance <= now
                THEN berths'[b] = [ status            |-> "available",
                                    start_maintenance |-> NULL,
                                    end_maintenance   |-> NULL ]
                ELSE berths'[b] = berths[b]
          /\ UNCHANGED << vessels, vessel_queue, operations >>
    ]_vars

\* the release step has just freed one berth and left in maintenance
\* another one whose window ends later
WitnessBerthReleased ==
    /\ pc = "allocate"
    /\ operations = << >>
    /\ \E b \in freed :
          berths[b] = [ status            |-> "available",
                        start_maintenance |-> NULL,
                        end_maintenance   |-> NULL ]
    /\ \E b \in DOMAIN berths :
          berths[b].status = "maintenance" /\ berths[b].end_maintenance > now

\* C16: after every committed allocation pass no berth is available while
\* an entry is waiting; and no step moves an in-progress operation to
\* another berth or vessel, nor changes it, its berth or its queue entry
\* before the finalization step at which it is due, whatever the priority
\* of the vessels that arrive meanwhile.
WorkConservingNoPreemption ==
    [][/\ AllocationPass =>
             \/ AvailableBerths(berths') = {}
             \/ WaitingEntries(vessel_queue') = {}
       /\ \A i \in DOMAIN operations :
             LET o == operations[i]
                 k == EntryOf(vessel_queue, o.vessel_id)
             IN o.status = "in_progress" =>
                   /\ operations'[i].berth_id = o.berth_id
                   /\ operations'[i].vessel_id = o.vessel_id
                   /\ \/ pc = "finalize" /\ o.end_time <= now
                      \/ /\ operations'[i] = o
                         /\ berths'[o.berth_id] = berths[o.berth_id]
                         /\ vessel_queue'[k] = vessel_queue[k]
    ]_vars

\* a committed pass has left a vessel waiting with no berth available,
\* while a vessel of lower priority stays in its operation begun earlier
WitnessHigherPriorityWaits ==
    /\ pc = "maintenance"
    /\ StepDone("allocate")
    /\ AvailableBerths(berths) = {}
    /\ \E k \in WaitingEntries(vessel_queue) :
       \E i \in DOMAIN operations :
          /\ operations[i].status = "in_progress"
          /\ operations[i].start_time < now
          /\ PriorityOf(vessel_queue[k].vessel_id) > PriorityOf(operations[i].vessel_id)

\* C17: a store failure inside a tick step undoes only the uncommitted
\* changes of that step, so the tables stay as the earlier steps committed
\* them, and the loop does not stop: it goes on to the statement that
\* follows the step.
StoreFailureContained ==
    [][failures' # failures =>
          /\ store' = store
          /\ pc' = NextStep(pc)
    ]_vars

\* ------------------------------------------------------- KeyboardInterrupt
\* the tables as the transaction of the step at pc may have written them
\* when the step is cut short: every prefix of its statements
WorkingStates ==
    LET committed == [ vessels |-> vessels, vessel_queue |-> vessel_queue,
                       berths |-> berths, operations |-> operations ]
    IN
    IF ~db_connection \/ pc = "sleep"
    THEN {committed}
    ELSE CASE pc = "spawn" ->
                {committed} \cup
                IF Len(vessels) < MaxVessels
                THEN UNION {
                       LET ship == generate_ship_data(t, sd, a, now)
                           wv   == InsertVessel(vessels, ship, sd)
                       IN { [committed EXCEPT !.vessels = wv],
                            [committed EXCEPT !.vessels = wv,
                                              !.vessel_queue =
                                                 InsertQueueEntry(vessel_queue,
                                                                  Len(vessels) + 1, ship)] }
                       : t \in DOMAIN ship_types, sd \in ServiceSecondsDraws,
                         a \in ArrivalAgoDraws }
                ELSE {}
           [] pc = "finalize" ->
                LET due == CompletedOperations(operations, now) IN
                UNION {
                  { [committed EXCEPT
                       !.operations = FinalizeOperations(operations, done \cup cur, now),
                       !.berths = FreeBerths(berths, operations,
                                             done \cup (IF stage = 2 THEN cur ELSE {})),
                       !.vessel_queue = CompleteQueueEntries(vessel_queue, operations,
                                                             done, now)]
                    : cur \in {c \in SUBSET (due \ done) : Cardinality(c) <= 1} }
                  : done \in SUBSET due, stage \in 1..2 }
           [] pc \in {"init_release", "release"} ->
                {committed, [committed EXCEPT !.berths = ReleaseBerths(berths, now)]}
           [] pc = "allocate" ->
                UNION {
                  { LET w == AllocatePartial(order, tie, vessels, vessel_queue, berths,
                                             operations, now, duration_seconds, n, stage)
                    IN [committed EXCEPT !.vessel_queue = w.vessel_queue,
                                         !.berths = w.berths,
                                         !.operations = w.operations]
                    : n \in 0..Len(order), stage \in 0..2 }
                  : order \in RowOrders(AvailableBerths(berths)),
                    tie \in TieBreaks(vessel_queue) }
           [] pc = "maintenance" ->
                {committed} \cup
                { [committed EXCEPT !.berths = StartMaintenance(berths, b, now, now + m)]
                  : b \in MaintenanceCandidates(berths), m \in MaintenanceDraws }

\* a finally clause that commits before it closes
CloseCommits(committed, working) == working

\* db_connection.close() of run_simulation: the server drops the open
\* transaction
Close(committed, working) == committed

\* the stop signal is delivered while the statement at pc runs or is about
\* to run: KeyboardInterrupt is not an Exception, so no except branch of a
\* step catches it and nothing is rolled back or committed; the handler of
\* simulate_real_time_data (line 371) ends the loop, get_database_stats
\* only reads, and run_simulation closes the connection
keyboard_interrupt ==
    /\ pc \in {"init_release", "spawn", "finalize", "release", "allocate",
               "maintenance", "sleep"}
    /\ pc' = "stopped"
    /\ duration_seconds' \in
          IF pc = "spawn" /\ db_connection /\ Len(vessels) < MaxVessels
          THEN {duration_seconds} \cup ServiceSecondsDraws
          ELSE {duration_seconds}
    /\ \E k \in 0..(IF pc = "finalize" /\ db_connection
                     THEN Cardinality(CompletedOperations(operations, now))
                     ELSE 0) :
          total_ships_handled' = total_ships_handled + k
    /\ \E w \in WorkingStates :
          /\ vessels' = Close(vessels, w.vessels)
          /\ vessel_queue' = Close(vessel_queue, w.vessel_queue)
          /\ berths' = Close(berths, w.berths)
          /\ operations' = Close(operations, w.operations)
    /\ UNCHANGED << now, db_connection, failures, hist, ship_data >>

NextStop == Next \/ keyboard_interrupt

\* the clock loop with its stop signal
SpecStop == Init /\ [][NextStop]_vars

\* C18: on the stop signal the loop starts no new tick and the tick in
\* flight runs all its remaining steps before the loop exits: the loop is
\* never left with a tick begun and not finished.
GracefulShutdown ==
    pc = "stopped" => (tick_log = << >> \/ StepsOf(tick_log) = LoopOrder)

\* C19: an allocation pass processes the available berths in ascending
\* berth identity, so from the same available berths and waiting entries it
\* always produces the same assignment: its n-th binding takes the n-th
\* smallest available berth.
AscendingBerthOrder ==
    [][AllocationPass =>
          \A i \in NewOperations :
             LET avail == AvailableBerths(berths)
                 n     == i - Len(operations)
             IN Cardinality({b \in avail : b < operations'[i].berth_id}) = n - 1
    ]_vars

\* ------------------------------------------------------ generate_ship_data
\* random.randint(45, 120) of line 110
ServiceSecondsLow == 45

ServiceSecondsHigh == 120

\* random.randint(5, 120) minutes of line 132
ArrivalMinutesLow == 5

ArrivalMinutesHigh == 120

\* one call of the generator with its own draws (of the arrival only the
\* two extremes); the clock is in seconds
generate_ship_data_call ==
    /\ \E t \in DOMAIN ship_types :
       \E s \in ServiceSecondsLow..ServiceSecondsHigh :
       \E m \in {ArrivalMinutesLow, ArrivalMinutesHigh} :
          ship_data' = generate_ship_data(t, s, 60 * m, now)
    /\ UNCHANGED << now, pc, db_connection, failures, store, attrs, hist >>

NextGen == generate_ship_data_call

\* the generator called again and again on a new simulator
SpecGen == Init /\ [][NextGen]_vars

\* C20: every descriptor the generator returns has a priority in {1, 2, 3}
\* and a duration inside the (min, max) range declared for its vessel type.
GeneratedWithinDeclaredRange ==
    ship_data # NoShip =>
       /\ ship_data.priority \in {1, 2, 3}
       /\ \E t \in DOMAIN ship_types :
             /\ ship_types[t].type = ship_data.type
             /\ ship_types[t].dmin <= ship_data.service_duration
             /\ ship_data.service_duration <= ship_types[t].dmax

\* the queue entries of vessel v
EntriesOf(q, v) == {k \in DOMAIN q : q[k].vessel_id = v}

\* C21: after any sequence of spawn steps every vessel has exactly one
\* queue entry and every entry a vessel; a committed insert adds one vessel
\* and, with it, its entry in state waiting; a spawn step that fails or is
\* skipped adds neither a vessel nor an entry.
OneEntryPerVessel ==
    [][/\ \A v \in DOMAIN vessels' : Cardinality(EntriesOf(vessel_queue', v)) = 1
       /\ \A k \in DOMAIN vessel_queue' : vessel_queue'[k].vessel_id \in DOMAIN vessels'
       /\ pc = "spawn" =>
             IF failures' = failures /\ Len(vessels') # Len(vessels)
             THEN /\ Len(vessels') = Len(vessels) + 1
                  /\ Len(vessel_queue') = Len(vessel_queue) + 1
                  /\ SubSeq(vessels', 1, Len(vessels)) = vessels
                  /\ SubSeq(vessel_queue', 1, Len(vessel_queue)) = vessel_queue
                  /\ vessel_queue'[Len(vessel_queue')].vessel_id = Len(vessels')
                  /\ vessel_queue'[Len(vessel_queue')].status = "waiting"
             ELSE vessels' = vessels /\ vessel_queue' = vessel_queue
    ]_vars

\* a spawn step has failed after an earlier one had committed its vessel
WitnessSpawnFailed ==
    /\ pc = "finalize"
    /\ tick_log = << [step |-> "spawn", error |-> TRUE] >>
    /\ Len(vessels) = 1
    /\ Len(vessel_queue) = 1

\* ------------------------------------------------- a run on a used store
\* the simulator is constructed on the store of an earlier run, which
\* initialize_database leaves as it is (it only inserts berths when there
\* are none): a vessel of that run is still waiting; duration_seconds is 0
\* until the first insert of this run
InitRestart ==
    /\ now = 0
    /\ pc = "init_release"
    /\ db_connection \in BOOLEAN
    /\ duration_seconds = 0
    /\ total_ships_handled = 0
    /\ failures = 0
    /\ LET ship == generate_ship_data(1, 1, 0, 0 - MaxArrivalAgo) IN
          /\ vessels = InsertVessel(<< >>, ship, 1)
          /\ vessel_queue = InsertQueueEntry(<< >>, 1, ship)
    /\ berths = InitBerths
    /\ operations = << >>
    /\ tick_log = << >>
    /\ freed = {}
    /\ inserted_at = << 0 - MaxArrivalAgo >>
    /\ ship_data = NoShip

\* time.sleep(self.tick_seconds) with tick_seconds below one second: the
\* next tick begins within the same second of the clock
SleepSubSecond ==
    /\ pc = "sleep"
    /\ now' = now
    /\ pc' = NextStep(pc)
    /\ tick_log' = << >>
    /\ freed' = {}
    /\ UNCHANGED << db_connection, store, attrs, failures, inserted_at, ship_data >>

\* the loop while the store answers every call
NextRestart ==
    \/ SpawnVessel
    \/ SkipSpawn
    \/ update_ongoing_operations
    \/ release_maintenance_berths
    \/ allocate_ships_to_berths
    \/ simulate_maintenance_event
    \/ SkipMaintenance
    \/ Sleep
    \/ SleepSubSecond

SpecRestart == InitRestart /\ [][NextRestart]_vars

\* C22: a committed finalization pass never divides by zero: for an
\* operation with actual_duration = 0 the division is skipped and the
\* efficiency is 0, and that operation and all the others that are due are
\* completed by the pass.
EfficiencyNeverDividesByZero ==
    [][FinalizationPass =>
          \A i \in CompletedOperations(operations, now) :
             LET planned == operations[i].planned_duration
                 actual  == now - operations[i].start_time
             IN /\ Efficiency(planned, actual) # ZeroDivisionError
                /\ actual = 0 => Efficiency(planned, actual) = 0
                /\ operations'[i].status = "completed"
                /\ operations'[i].actual_duration = actual
    ]_vars

\* an operation planned with duration 0 was completed by a committed pass
\* within the second in which it began
WitnessZeroActualDuration ==
    /\ pc = "release"
    /\ StepDone("finalize")
    /\ \E i \in DOMAIN operations :
          /\ operations[i].status = "completed"
          /\ operations[i].actual_duration = 0
          /\ operations[i].start_time = now
    /\ total_ships_handled >= 1

\* the position of a status in the lifecycle of a queue entry
StatusRank(status) ==
    CASE status = "waiting"    -> 1
      [] status = "in_service" -> 2
      [] status = "completed"  -> 3

\* the operations ever inserted for vessel v
OperationsOf(ops, v) == {i \in DOMAIN ops : ops[i].vessel_id = v}

\* C23: no step moves a queue entry backwards in waiting, in_service,
\* completed: an entry never returns to waiting and a completed entry stays
\* completed; a waiting entry leaves that state only with its operation, so
\* each vessel gets at most one operation in the whole run.
EntryMovesForward ==
    [][/\ \A k \in DOMAIN vessel_queue :
             /\ vessel_queue'[k].vessel_id = vessel_queue[k].vessel_id
             /\ StatusRank(vessel_queue'[k].status) >= StatusRank(vessel_queue[k].status)
             /\ StatusRank(vessel_queue'[k].status) <= StatusRank(vessel_queue[k].status) + 1
       /\ \A v \in DOMAIN vessels' :
             /\ Cardinality(OperationsOf(operations', v)) <= 1
             /\ Cardinality(OperationsOf(operations', v)) = 1
                   <=> vessel_queue'[EntryOf(vessel_queue', v)].status # "waiting"
    ]_vars

\* one entry has gone through the three states while a later one is in
\* service
WitnessLifecycleCompleted ==
    /\ \E k \in DOMAIN vessel_queue : vessel_queue[k].status = "completed"
    /\ \E k \in DOMAIN vessel_queue : vessel_queue[k].status = "in_service"
    /\ Len(operations) = 2

\* ------------------------------------------------ the loop without horizon
\* The loop reads a timestamp of the store only against the clock
\* (end_time <= now, end_maintenance <= now, now - start_time) or against
\* another arrival (ORDER BY arrival_time), so a sleep of d seconds is
\* represented by keeping the clock at LiveBase and moving every timestamp
\* of the store d seconds back. A timestamp that has passed decides nothing
\* any more and stays at the clock; an arrival stays at 0, the earliest
\* arrival a new vessel can have, where the order among equal arrivals is
\* left open. The run can then go on for ever in finitely many states; the
\* durations recorded at completion are not meaningful in this
\* representation.
LiveBase == MaxArrivalAgo

RebaseTime(t, d) ==
    IF t = NULL THEN NULL ELSE IF t - d < LiveBase THEN LiveBase ELSE t - d

RebaseArrival(t, d) == IF t - d < 0 THEN 0 ELSE t - d

RebaseQueue(q, d) ==
    [k \in DOMAIN q |->
        [q[k] EXCEPT !.arrival_time       = RebaseArrival(@, d),
                     !.start_service_time = RebaseTime(@, d),
                     !.end_service_time   = RebaseTime(@, d)]]

RebaseBerths(bs, d) ==
    [b \in DOMAIN bs |->
        [bs[b] EXCEPT !.start_maintenance = RebaseTime(@, d),
                      !.end_maintenance   = RebaseTime(@, d)]]

RebaseOperations(ops, d) ==
    [i \in DOMAIN ops |->
        [ops[i] EXCEPT !.start_time = RebaseTime(@, d),
                       !.end_time   = RebaseTime(@, d)]]

\* a new simulator on an empty store, the clock at LiveBase
InitLive ==
    /\ now = LiveBase
    /\ pc = "init_release"
    /\ db_connection = TRUE
    /\ duration_seconds = 0
    /\ total_ships_handled = 0
    /\ failures = 0
    /\ vessels = << >>
    /\ vessel_queue = << >>
    /\ berths = InitBerths
    /\ operations = << >>
    /\ tick_log = << >>
    /\ freed = {}
    /\ inserted_at = << >>
    /\ ship_data = NoShip

\* time.sleep(self.tick_seconds)
SleepRebased ==
    /\ pc = "sleep"
    /\ \E d \in 1..MaxSleep :
          /\ vessel_queue' = RebaseQueue(vessel_queue, d)
          /\ berths' = RebaseBerths(berths, d)
          /\ operations' = RebaseOperations(operations, d)
    /\ pc' = NextStep(pc)
    /\ tick_log' = << >>
    /\ freed' = {}
    /\ UNCHANGED << now, db_connection, vessels, attrs, failures, inserted_at, ship_data >>

\* the loop while the store answers every call; the arrivals stop after
\* MaxVessels vessels
NextLive ==
    \/ SpawnVessel
    \/ SkipSpawn
    \/ update_ongoing_operations
    \/ release_maintenance_berths
    \/ allocate_ships_to_berths
    \/ simulate_maintenance_event
    \/ SkipMaintenance
    \/ SleepRebased

\* the single thread of the loop always takes its next statement
SpecLive == InitLive /\ [][NextLive]_vars /\ WF_vars(NextLive)

EntryIs(v, status) ==
    v \in DOMAIN vessels /\ vessel_queue[EntryOf(vessel_queue, v)].status = status

\* C24: when the arrivals stop and the store calls succeed, every waiting
\* entry eventually is in service, and again and again every entry of the
\* queue is completed (so every entry in service eventually is completed),
\* however often the maintenance event is drawn.
WaitingEventuallyServed ==
    /\ \A v \in 1..MaxVessels : EntryIs(v, "waiting") ~> EntryIs(v, "in_service")
    /\ []<>(\A k \in DOMAIN vessel_queue : vessel_queue[k].status = "completed")

\* an entry that found every berth in maintenance was bound in the tick in
\* which the release step freed one, while the other berths remain in
\* maintenance
WitnessServedAfterMaintenance ==
    /\ pc = "maintenance"
    /\ operations # << >>
    /\ \A i \in DOMAIN operations : operations[i].start_time = now
    /\ \E b \in freed : berths[b].status = "occupied"
    /\ \A b \in DOMAIN berths : b \notin freed => berths[b].status = "maintenance"

\* C25: while the clock keeps ticking and the store calls succeed, every
\* berth that is occupied or in maintenance eventually is available again:
\* no berth stays out of the available state for ever.
BerthEventuallyAvailable ==
    \A b \in BerthIds : berths[b].status # "available" ~> berths[b].status = "available"

\* the finalization step has just made available the berth of a completed
\* operation while another berth is in maintenance
WitnessBerthBackAvailable ==
    /\ pc = "release"
    /\ \E b \in freed :
          /\ berths[b].status = "available"
          /\ \E i \in DOMAIN operations :
                operations[i].berth_id = b /\ operations[i].status = "completed"
    /\ \E b \in DOMAIN berths : berths[b].status = "maintenance"

\* C26: total_ships_handled equals the number of operations that the store
\* holds as completed, after any sequence of finalization steps, failed
\* ones included.
CounterMatchesStore ==
    total_ships_handled =
       Cardinality({i \in DOMAIN operations : operations[i].status = "completed"})

\* C27: a stop signal that arrives in the middle of a step, after some of
\* its updates and before its commit, commits none of them: the store is
\* left as before the step, with every berth occupied iff it has its one
\* in-progress operation and every entry in service iff its vessel has one.
InterruptCommitsNothing ==
    [][pc' = "stopped" =>
          /\ store' = store
          /\ BerthOccupiedIffOneOperation'
          /\ InServiceIffOperation'
    ]_vars

\* the loop was stopped in its allocation step, which had a waiting entry
\* and an available berth to bind, with an operation already in progress
WitnessStoppedInAllocation ==
    /\ pc = "stopped"
    /\ db_connection
    /\ StepsOf(tick_log) = << "spawn", "finalize", "release" >>
    /\ WaitingEntries(vessel_queue) # {}
    /\ AvailableBerths(berths) # {}
    /\ \E i \in DOMAIN operations : operations[i].status = "in_progress"

\* C28: in every committed state a berth has its two window fields set iff
\* its status is maintenance, and then start_maintenance < end_maintenance;
\* an available or occupied berth has both fields empty.
WindowIffMaintenance ==
    \A b \in DOMAIN berths :
       IF berths[b].status = "maintenance"
       THEN /\ berths[b].start_maintenance # NULL
            /\ berths[b].end_maintenance # NULL
            /\ berths[b].start_maintenance < berths[b].end_maintenance
       ELSE /\ berths[b].start_maintenance = NULL
            /\ berths[b].end_maintenance = NULL

\* a berth that was in maintenance has been released and then occupied,
\* while another berth is in maintenance
WitnessWindowCleared ==
    /\ \E b \in DOMAIN berths :
          /\ berths[b].status = "occupied"
          /\ \E c \in DOMAIN berths : berths[c].status = "maintenance"
    /\ \E b \in freed : berths[b].status = "occupied" /\ operations = << [
          vessel_id |-> 1, berth_id |-> b, start_time |-> now, end_time |-> now + duration_seconds,
          status |-> "in_progress", planned_duration |-> duration_seconds,
          actual_duration |-> NULL ] >>

\* C29: in every reachable state the timestamps of a queue entry that are
\* set are ordered arrival_time <= start_service_time <= end_service_time,
\* so the wait computed at allocation is never negative; start_service_time
\* is set exactly when the entry is in_service or completed and
\* end_service_time exactly when it is completed.
EntryTimestampsOrdered ==
    \A k \in DOMAIN vessel_queue :
       LET e == vessel_queue[k] IN
       /\ e.start_service_time # NULL <=> e.status \in {"in_service", "completed"}
       /\ e.end_service_time # NULL <=> e.status = "completed"
       /\ e.start_service_time # NULL => e.arrival_time <= e.start_service_time
       /\ e.end_service_time # NULL => e.start_service_time <= e.end_service_time

\* an entry that waited for more than a tick has been served and completed,
\* while another entry is in service
WitnessEntryTimestamps ==
    /\ \E k \in DOMAIN vessel_queue :
          /\ vessel_queue[k].status = "completed"
          /\ vessel_queue[k].start_service_time > inserted_at[vessel_queue[k].vessel_id]
          /\ vessel_queue[k].end_service_time > vessel_queue[k].start_service_time
    /\ \E k \in DOMAIN vessel_queue : vessel_queue[k].status = "in_service"

\* C30: a call of insert_vessel_to_db that fails and is rolled back, or is
\* skipped for want of a connection, leaves the attributes that later steps
\* read as they were; in particular duration_seconds, which the allocator
\* uses for its next operations, is the same as before the call.
FailedInsertKeepsAttributes ==
    [][(pc = "spawn" /\ pc' = "finalize" /\ vessels' = vessels) =>
          /\ duration_seconds' = duration_seconds
          /\ total_ships_handled' = total_ships_handled
    ]_vars

====
